---- MODULE Spec2Model ----
(***************************************************************************)
(* Model of streamlit_app.py: the barcode image composition and scaling    *)
(* routine (generate_barcode_image), the row-to-file pipeline              *)
(* (create_zip_of_barcodes) and the generate-button handler.               *)
(*                                                                         *)
(* Strings are sequences of one-character strings.  An Optional[int] is a  *)
(* natural number where 0 stands for None: the code only ever tests        *)
(* `if width_px` / `if not width_px`, which treats None and 0 alike.       *)
(***************************************************************************)
EXTENDS Integers, Sequences, FiniteSets, TLC

\* ------------------------------------------------------------------ bounds
MaxBarW == 22
MaxBarH == 3
MaxTextW == 2
MaxTextH == 1
MaxTarget == 16
MaxRows == 3
MaxNameLen == 5

VARIABLES
    \* generate_barcode_image: arguments, measured sizes, returned geometry
    bar_w, bar_h, text_w, text_h, width_px, height_px, ipc, img,
    \* create_zip_of_barcodes and the button handler
    df, idx, archive, zpc, ui, download, preview,
    \* file-name normalisation on its own
    raw_name, filename, npc

imgvars == <<bar_w, bar_h, text_w, text_h, width_px, height_px, ipc, img>>
zipvars == <<df, idx, archive, zpc, ui, download, preview>>
namevars == <<raw_name, filename, npc>>
vars == <<imgvars, zipvars, namevars>>

\* ------------------------------------------------------- integer helpers
Max(a, b) == IF a >= b THEN a ELSE b

\* ------------------------------------------- generate_barcode_image (49-159)
text_padding_x == 10
text_padding_y == 5

\* `if width_px` : an Optional[int] is truthy when it is neither None nor 0
Given(x) == x # 0

\* Triples (a, b, c) with a, b, c in 1..34 for which the IEEE-754 double
\* product a * (b / c) falls just below the integer a*b/c, so that int()
\* yields one less than the exact quotient (e.g. 11 * (15 / 11) =
\* 14.999999999999998).  For every other triple in that range int(a*(b/c))
\* equals floor(a*b/c).
FloatShort ==
    { <<11, 15, 11>>, <<11, 30, 11>>, <<11, 30, 22>>, <<13, 15, 13>>,
      <<13, 30, 13>>, <<13, 30, 26>>, <<21, 17, 7>>, <<21, 34, 7>>,
      <<21, 34, 14>>, <<22, 15, 11>>, <<22, 15, 22>>, <<22, 30, 11>>,
      <<22, 30, 22>>, <<23, 13, 23>>, <<23, 26, 23>>, <<25, 23, 5>>,
      <<25, 29, 25>>, <<26, 15, 13>>, <<26, 15, 26>>, <<26, 30, 13>>,
      <<26, 30, 26>>, <<27, 13, 3>>, <<27, 26, 3>>, <<27, 26, 6>>,
      <<29, 31, 29>> }

\* variant: the product rounded to the nearest integer instead of truncated
IntMulDivRounded(a, b, c) == (2 * a * b + c) \div (2 * c)

\* int(a * (b / c)) for positive integers a, b, c: Python divides and
\* multiplies in double precision, then int() truncates toward zero.
IntMulDiv(a, b, c) ==
    IF <<a, b, c>> \in FloatShort THEN ((a * b) \div c) - 1 ELSE (a * b) \div c

\* lines 101-115: caption strip and vertical stacking
text_strip_w(bw, tw) == Max(bw, tw + 2 * text_padding_x)
\* variant: the vertical padding counted once
text_strip_h_OnePad(th) == th + text_padding_y
text_strip_h(th) == th + 2 * text_padding_y
combined_w(bw, tw) == Max(bw, text_strip_w(bw, tw))
combined_h(bh, th) == bh + text_strip_h(th)

\* lines 132-133: scale = min(width_px / orig_w, height_px / orig_h), kept as
\* the pair <<numerator, denominator>> of the quotient that is the minimum
\* (equal quotients are the same double, whichever pair names it)
ScaleBoth(ow, oh, w, h) == IF w * oh <= h * ow THEN <<w, ow>> ELSE <<h, oh>>

\* variant: no 1-pixel floor on the scaled size
NewSizeNoFloor(ow, oh, w, h) ==
    IF Given(w) /\ Given(h)
    THEN LET scale == ScaleBoth(ow, oh, w, h)
         IN  << IntMulDiv(ow, scale[1], scale[2]),
                IntMulDiv(oh, scale[1], scale[2]) >>
    ELSE IF Given(w) /\ ~Given(h)
    THEN << w, IntMulDiv(oh, w, ow) >>
    ELSE << IntMulDiv(ow, h, oh), h >>

\* lines 132-146: the scaled content size <<new_w, new_h>>
NewSize(ow, oh, w, h) ==
    IF Given(w) /\ Given(h)
    THEN LET scale == ScaleBoth(ow, oh, w, h)
         IN  << Max(1, IntMulDiv(ow, scale[1], scale[2])),
                Max(1, IntMulDiv(oh, scale[1], scale[2])) >>
    ELSE IF Given(w) /\ ~Given(h)
    THEN << w, Max(1, IntMulDiv(oh, w, ow)) >>
    ELSE << Max(1, IntMulDiv(ow, h, oh)), h >>

\* variant: the canvas takes the size of the scaled content
CanvasSizeUnpadded(w, h, nw, nh) == <<nw, nh>>

\* lines 151-152: the final canvas size
CanvasSize(w, h, nw, nh) ==
    << IF Given(w) THEN w ELSE nw, IF Given(h) THEN h ELSE nh >>

\* variant: the content pasted flush with the far edge
OffsetFlushEnd(canvas, new) == canvas - new

\* lines 155-156: where the resized content is pasted
Offset(canvas, new) == (canvas - new) \div 2

\* The geometry of the image generate_barcode_image returns: its size
\* (w, h), and, when it was resized, the content box pasted on the canvas.
generate_barcode_image(bw, bh, tw, th, w, h) ==
    LET orig_w == combined_w(bw, tw)
        orig_h == combined_h(bh, th)
    IN  IF ~Given(w) /\ ~Given(h)
        THEN [resized |-> FALSE, w |-> orig_w, h |-> orig_h,
              orig_w |-> orig_w, orig_h |-> orig_h,
              new_w |-> orig_w, new_h |-> orig_h,
              offset_x |-> 0, offset_y |-> 0]
        ELSE LET new == NewSize(orig_w, orig_h, w, h)
                 canvas == CanvasSize(w, h, new[1], new[2])
             IN  [resized |-> TRUE, w |-> canvas[1], h |-> canvas[2],
                  orig_w |-> orig_w, orig_h |-> orig_h,
                  new_w |-> new[1], new_h |-> new[2],
                  offset_x |-> Offset(canvas[1], new[1]),
                  offset_y |-> Offset(canvas[2], new[2])]

NoImage ==
    [resized |-> FALSE, w |-> 0, h |-> 0, orig_w |-> 0, orig_h |-> 0,
     new_w |-> 0, new_h |-> 0, offset_x |-> 0, offset_y |-> 0]

\* --------------------------------------------------------------- strings
NaN == [kind |-> "nan", s |-> << >>]
Str(chars) == [kind |-> "str", s |-> chars]

\* str(cell): a text cell is itself, a missing cell (NaN) prints as "nan"
str(cell) == IF cell.kind = "nan" THEN <<"n", "a", "n">> ELSE cell.s

Whitespace == {" "}

RECURSIVE lstrip(_)
lstrip(s) ==
    IF s # << >> /\ Head(s) \in Whitespace THEN lstrip(Tail(s)) ELSE s

RECURSIVE rstrip(_)
rstrip(s) ==
    IF s # << >> /\ s[Len(s)] \in Whitespace
    THEN rstrip(SubSeq(s, 1, Len(s) - 1))
    ELSE s

\* str.strip()
strip(s) == rstrip(lstrip(s))

\* str.lower(), on the letters the model's alphabets hold
LowerChar(c) ==
    IF c = "J" THEN "j" ELSE IF c = "P" THEN "p" ELSE IF c = "G" THEN "g" ELSE c

lower(s) == [k \in 1..Len(s) |-> LowerChar(s[k])]

\* str.endswith(suffix)
endswith(s, suffix) ==
    /\ Len(s) >= Len(suffix)
    /\ SubSeq(s, Len(s) - Len(suffix) + 1, Len(s)) = suffix

DotJpg == <<".", "j", "p", "g">>

\* variant: the suffix test without lower()
ArchiveNameCaseSensitive(jpeg_name) ==
    IF ~endswith(jpeg_name, DotJpg) THEN jpeg_name \o DotJpg ELSE jpeg_name

\* lines 193-197: the archive entry name
ArchiveName(jpeg_name) ==
    IF ~endswith(lower(jpeg_name), DotJpg) THEN jpeg_name \o DotJpg ELSE jpeg_name

\* variant: only the barcode field is tested
SkipRowBarcodeOnly(barcode_value, jpeg_name) == barcode_value = << >>

\* line 179: `if not barcode_value or not jpeg_name: continue`
SkipRow(barcode_value, jpeg_name) == barcode_value = << >> \/ jpeg_name = << >>

\* line 66: Code128(barcode_value, ...) raises for a character outside the
\* Code-128 character set; of the model's characters "?" stands for such a
\* character (a non-ASCII letter).
Code128Chars == {" ", "1", "n", "a"}
Encodable(barcode_value) ==
    \A k \in 1..Len(barcode_value) : barcode_value[k] \in Code128Chars

\* variant: an entry of the same name is replaced
writestrReplace(zipf, name, data) ==
    IF \E k \in 1..Len(zipf) : zipf[k].filename = name
    THEN [k \in 1..Len(zipf) |->
             IF zipf[k].filename = name
             THEN [filename |-> name, data |-> data]
             ELSE zipf[k]]
    ELSE Append(zipf, [filename |-> name, data |-> data])

\* line 199: zipf.writestr(filename, data) appends an entry; an entry of the
\* same name is added again, nothing is replaced
writestr(zipf, name, data) == Append(zipf, [filename |-> name, data |-> data])

\* line 344: df.head(3)
PreviewRows == 3
head(d, n) == SubSeq(d, 1, IF Len(d) < n THEN Len(d) ELSE n)

\* lines 344-356: the captions of the preview, f"`{jpeg_name}.jpg`"
RECURSIVE PreviewCaptions(_)
PreviewCaptions(d) ==
    IF d = << >> THEN << >>
    ELSE LET barcode_value == strip(str(Head(d).Barcode))
             jpeg_name == strip(str(Head(d).JPEGName))
         IN  IF SkipRow(barcode_value, jpeg_name)
             THEN PreviewCaptions(Tail(d))
             ELSE <<jpeg_name \o DotJpg>> \o PreviewCaptions(Tail(d))

\* ------------------------------------------------------------ input sets
Targets == 0..MaxTarget

BarcodeCells == {NaN, Str(<<" ">>), Str(<<"1", " ">>), Str(<<"?">>)}
NameCells ==
    { Str(<< >>), Str(<<" ">>), Str(<<"a", " ">>),
      Str(<<"a", ".", "j", "p", "g">>), Str(<<"a", ".", "J", "P", "G">>) }
Rows == [Barcode : BarcodeCells, JPEGName : NameCells]

\* validate_dataframe (34-46) admits only a non-empty table
Tables == UNION { [1..n -> Rows] : n \in 1..MaxRows }

NameChars == {" ", ".", "j", "J", "p", "P", "g", "a"}
Names == UNION { [1..n -> NameChars] : n \in 0..MaxNameLen }

\* ------------------------------------------------------------- idle parts
ImgIdle ==
    /\ bar_w = 1 /\ bar_h = 1 /\ text_w = 0 /\ text_h = 0
    /\ width_px = 0 /\ height_px = 0 /\ ipc = "idle" /\ img = NoImage
ZipIdle ==
    /\ df = << >> /\ idx = 0 /\ archive = << >> /\ zpc = "idle"
    /\ ui = "none" /\ download = << >> /\ preview = << >>
NameIdle ==
    /\ raw_name = << >> /\ filename = << >> /\ npc = "idle"

\* ------------------------------------------- generate_barcode_image calls
InitImage ==
    /\ bar_w \in 1..MaxBarW /\ bar_h \in 1..MaxBarH
    /\ text_w \in 0..MaxTextW /\ text_h \in 0..MaxTextH
    /\ width_px \in Targets /\ height_px \in Targets
    /\ ipc = "call" /\ img = NoImage
    /\ ZipIdle /\ NameIdle

Return ==
    /\ img' = generate_barcode_image(bar_w, bar_h, text_w, text_h, width_px, height_px)
    /\ ipc' = "returned"
    /\ UNCHANGED <<bar_w, bar_h, text_w, text_h, width_px, height_px>>
    /\ UNCHANGED <<zipvars, namevars>>

\* lines 126-127
ReturnCombined ==
    /\ ipc = "call" /\ ~Given(width_px) /\ ~Given(height_px)
    /\ Return

\* lines 132-135, 148-159
FitBoth ==
    /\ ipc = "call" /\ Given(width_px) /\ Given(height_px)
    /\ Return

\* lines 136-139, 148-159
FitWidth ==
    /\ ipc = "call" /\ Given(width_px) /\ ~Given(height_px)
    /\ Return

\* lines 140-143, 148-159
FitHeight ==
    /\ ipc = "call" /\ Given(height_px) /\ ~Given(width_px)
    /\ Return

NextImage == ReturnCombined \/ FitBoth \/ FitWidth \/ FitHeight

SpecImage == InitImage /\ [][NextImage]_vars

\* -------------------------------------------------- file name on its own
InitName ==
    /\ raw_name \in Names /\ filename = << >> /\ npc = "row"
    /\ ImgIdle /\ ZipIdle

\* lines 177-180: the name is trimmed; an empty name skips the row
NameSkipped ==
    /\ npc = "row" /\ strip(raw_name) = << >>
    /\ npc' = "skipped"
    /\ UNCHANGED <<raw_name, filename, imgvars, zipvars>>

\* lines 193-197
NameWritten ==
    /\ npc = "row" /\ strip(raw_name) # << >>
    /\ filename' = ArchiveName(strip(raw_name))
    /\ npc' = "written"
    /\ UNCHANGED <<raw_name, imgvars, zipvars>>

NextName == NameSkipped \/ NameWritten

SpecName == InitName /\ [][NextName]_vars

\* ------------------------- create_zip_of_barcodes and the button handler
Init ==
    /\ df \in Tables /\ idx = 0 /\ archive = << >> /\ zpc = "idle"
    /\ ui = "none" /\ download = << >> /\ preview = << >>
    /\ ImgIdle /\ NameIdle

\* lines 324-327, 172-174: the button is pressed, the archive is opened
Generate ==
    /\ zpc = "idle"
    /\ zpc' = "loop"
    /\ archive' = << >>
    /\ UNCHANGED <<df, idx, ui, download, preview, imgvars, namevars>>

\* lines 175-199: one iteration of `for _, row in df.iterrows()`
ProcessRow ==
    /\ zpc = "loop" /\ idx < Len(df)
    /\ LET row == df[idx + 1]
           barcode_value == strip(str(row.Barcode))
           jpeg_name == strip(str(row.JPEGName))
       IN  IF SkipRow(barcode_value, jpeg_name)
           THEN /\ idx' = idx + 1
                /\ UNCHANGED <<archive, zpc>>
           ELSE IF ~Encodable(barcode_value)
           THEN \* generate_barcode_image raises; nothing in
                \* create_zip_of_barcodes catches it
                /\ zpc' = "raised"
                /\ UNCHANGED <<archive, idx>>
           ELSE /\ archive' = writestr(archive, ArchiveName(jpeg_name), barcode_value)
                /\ idx' = idx + 1
                /\ UNCHANGED zpc
    /\ UNCHANGED <<df, ui, download, preview, imgvars, namevars>>

\* lines 201-202, 334-356: the archive is returned, offered for download and
\* the first rows are previewed
HandlerSuccess ==
    /\ zpc = "loop" /\ idx = Len(df)
    /\ zpc' = "returned"
    /\ ui' = "success"
    /\ download' = archive
    /\ preview' = PreviewCaptions(head(df, PreviewRows))
    /\ UNCHANGED <<df, idx, archive, imgvars, namevars>>

\* lines 358-359: `except Exception as e: st.error(...)`
HandlerError ==
    /\ zpc = "raised"
    /\ zpc' = "failed"
    /\ ui' = "error"
    /\ UNCHANGED <<df, idx, archive, download, preview, imgvars, namevars>>

Next == Generate \/ ProcessRow \/ HandlerSuccess \/ HandlerError

Spec == Init /\ [][Next]_vars

\* ================================================================ claims
Returned == ipc = "returned"
BothGiven == Given(width_px) /\ Given(height_px)
WidthOnly == Given(width_px) /\ ~Given(height_px)
HeightOnly == Given(height_px) /\ ~Given(width_px)

\* C1: with both target dimensions given, the returned canvas is exactly
\* (width_px, height_px), whatever the aspect ratio of the combined image.
C1_ExactTargetBox ==
    (Returned /\ BothGiven) => (img.w = width_px /\ img.h = height_px)

\* a fitted image whose content does not fill the box on either axis
C1_Witness ==
    /\ Returned /\ BothGiven
    /\ img.w = width_px /\ img.h = height_px
    /\ img.new_w < width_px /\ img.new_h < height_px

\* round(a * b / c) as Python rounds (ties to the even integer)
Round(a, b, c) ==
    LET q == (a * b) \div c
        r == (a * b) % c
    IN  IF 2 * r < c THEN q
        ELSE IF 2 * r > c THEN q + 1
        ELSE IF q % 2 = 0 THEN q ELSE q + 1

\* C4 as stated: with exactly one target dimension given, the given axis
\* equals the target and the other axis equals round(combined size on that
\* axis * target / combined size on the given axis).
C4_RoundedOtherAxis ==
    /\ (Returned /\ WidthOnly) =>
           /\ img.w = width_px
           /\ img.h = Round(img.orig_h, width_px, img.orig_w)
    /\ (Returned /\ HeightOnly) =>
           /\ img.h = height_px
           /\ img.w = Round(img.orig_w, height_px, img.orig_h)

\* n is the exact product a*b/c truncated toward zero and floored at 1, or
\* one less than that when a*b/c is an integer (the double product may fall
\* just short of it)
TruncatedTo(n, a, b, c) ==
    LET q == (a * b) \div c
    IN  \/ n = Max(1, q)
        \/ (a * b) % c = 0 /\ n = Max(1, q - 1)

\* C4 amended: with exactly one target dimension given, the given axis equals
\* the target and the other axis is the scaled size truncated toward zero
\* (never rounded up), at least 1; it is one below the exact quotient only
\* where that quotient is an integer.
C4_TruncatedOtherAxis ==
    /\ (Returned /\ WidthOnly) =>
           /\ img.w = width_px
           /\ img.h = img.new_h
           /\ TruncatedTo(img.h, img.orig_h, width_px, img.orig_w)
    /\ (Returned /\ HeightOnly) =>
           /\ img.h = height_px
           /\ img.w = img.new_w
           /\ TruncatedTo(img.w, img.orig_w, height_px, img.orig_h)

\* a width-only fit whose exact height has a fraction of at least one half,
\* where truncating and rounding differ
C4_Witness ==
    /\ Returned /\ WidthOnly
    /\ 2 * ((img.orig_h * width_px) % img.orig_w) >= img.orig_w
    /\ img.h >= 2

\* C5: with neither target dimension given the combined image is returned
\* unscaled and unpadded: height = bar height + text height + 2*5, width =
\* max(bar width, max(bar width, text width + 2*10)).
C5_NoTargetReturnsCombined ==
    (Returned /\ ~Given(width_px) /\ ~Given(height_px)) =>
        /\ ~img.resized
        /\ img.h = bar_h + (text_h + 2 * 5)
        /\ img.w = Max(bar_w, Max(bar_w, text_w + 2 * 10))

\* an unscaled image whose caption strip is wider than the bars
C5_Witness ==
    /\ Returned /\ ~Given(width_px) /\ ~Given(height_px)
    /\ text_w + 20 > bar_w /\ text_h > 0
    /\ img.w = text_w + 20

\* C7: when a target box is given, the scaled content lies inside the final
\* canvas and is centred: the left/right margins differ by at most one pixel
\* and so do the top/bottom margins.
C7_CenteredNoCrop ==
    (Returned /\ img.resized) =>
        LET left == img.offset_x
            right == img.w - img.new_w - img.offset_x
            top == img.offset_y
            bottom == img.h - img.new_h - img.offset_y
        IN  /\ left >= 0 /\ right >= 0 /\ top >= 0 /\ bottom >= 0
            /\ right - left \in {-1, 0, 1}
            /\ bottom - top \in {-1, 0, 1}

\* a letterboxed image with an odd horizontal margin and a non-zero offset
C7_Witness ==
    /\ Returned /\ BothGiven
    /\ (img.w - img.new_w) % 2 = 1
    /\ img.offset_x > 0
    /\ img.new_w >= 2

\* C8 as stated: with one target dimension given, the computed size on the
\* other axis differs from the exact scaled value by less than one pixel,
\* wherever that exact value is at least 1.
C8_WithinOnePixel ==
    /\ (Returned /\ WidthOnly /\ img.orig_h * width_px >= img.orig_w) =>
           /\ img.new_h * img.orig_w > img.orig_h * width_px - img.orig_w
           /\ img.new_h * img.orig_w < img.orig_h * width_px + img.orig_w
    /\ (Returned /\ HeightOnly /\ img.orig_w * height_px >= img.orig_h) =>
           /\ img.new_w * img.orig_h > img.orig_w * height_px - img.orig_h
           /\ img.new_w * img.orig_h < img.orig_w * height_px + img.orig_h

\* C9: the scaled content size and the final canvas size are at least 1 on
\* both axes, also where the exact scaled value is below one pixel.
C9_AtLeastOnePixel ==
    (Returned /\ img.resized) =>
        /\ img.new_w >= 1 /\ img.new_h >= 1
        /\ img.w >= 1 /\ img.h >= 1

\* a width-only fit whose exact scaled height is below one pixel
C9_Witness ==
    /\ Returned /\ WidthOnly
    /\ img.orig_h * width_px < img.orig_w
    /\ img.new_h = 1

\* ---- the pipeline
\* a field that holds a character other than whitespace
NonBlank(cell) == \E k \in 1..Len(str(cell)) : str(cell)[k] \notin Whitespace
Kept(row) == NonBlank(row.Barcode) /\ NonBlank(row.JPEGName)
KeptRows(d) == SelectSeq(d, Kept)
Rejected(row) == \E k \in 1..Len(str(row.Barcode)) : str(row.Barcode)[k] = "?"
Accepted(row) == Kept(row) /\ ~Rejected(row)
EntryOf(row) ==
    [filename |-> ArchiveName(strip(str(row.JPEGName))),
     data |-> strip(str(row.Barcode))]
EntriesOf(d) == [k \in 1..Len(d) |-> EntryOf(d[k])]

\* C2 as stated: a row whose barcode value the encoder rejects is skipped on
\* its own; the batch is not aborted and the returned archive holds the
\* entry of every other non-empty row.
C2_RejectedRowSkipped ==
    /\ zpc \notin {"raised", "failed"}
    /\ ui # "error"
    /\ zpc = "returned" => download = EntriesOf(SelectSeq(df, Accepted))

EndsJpgAnyCase(s) ==
    /\ Len(s) >= 4
    /\ s[Len(s) - 3] = "."
    /\ s[Len(s) - 2] \in {"j", "J"}
    /\ s[Len(s) - 1] \in {"p", "P"}
    /\ s[Len(s)] \in {"g", "G"}

\* C6: the archive entry name of a non-empty trimmed name ends with ".jpg"
\* case-insensitively; a name that already does is kept unchanged, any other
\* gets ".jpg" appended; normalising the result again changes nothing.
C6_NameNormalised ==
    npc = "written" =>
        LET jpeg_name == strip(raw_name)
        IN  /\ EndsJpgAnyCase(filename)
            /\ EndsJpgAnyCase(jpeg_name) => filename = jpeg_name
            /\ ~EndsJpgAnyCase(jpeg_name) => filename = jpeg_name \o <<".", "j", "p", "g">>
            /\ ArchiveName(filename) = filename

\* a name with a mixed-case suffix was kept as it was
C6_Witness ==
    /\ npc = "written"
    /\ Len(filename) = 5
    /\ SubSeq(filename, 2, 5) = <<".", "J", "p", "g">>
    /\ filename = raw_name

\* C10: when every render succeeded, the returned archive holds one entry per
\* non-skipped row in row order, the i-th being the normalised name of the
\* i-th non-skipped row; rows with equal normalised names yield two entries.
C10_EntriesInRowOrder ==
    ui = "success" =>
        /\ Len(download) = Len(KeptRows(df))
        /\ \A i \in 1..Len(download) : download[i] = EntryOf(KeptRows(df)[i])

\* an archive returned with two entries of the same name from different rows
C10_Witness ==
    /\ ui = "success"
    /\ \E i, j \in 1..Len(download) :
           /\ i < j
           /\ download[i].filename = download[j].filename
           /\ download[i].data # download[j].data

====
